---- MODULE Spec2Model ----
(***************************************************************************)
(* A model of oms-core/scripts/readyset-timeseries.py: MetricsSnapshot,    *)
(* its JSON form, and ReadySetMetricsCollector (fetch_metrics,             *)
(* parse_metrics, collect_once, collect_loop, save, load).                 *)
(*                                                                         *)
(* Python values are represented as follows.                               *)
(*   None / a value x        <<>> / <<x>>                                  *)
(*   int                     an integer                                    *)
(*   float                   a reduced fraction [n |-> .., d |-> ..]       *)
(*   str (a numeric token)   a sequence of one-character strings           *)
(*   datetime                [sec |-> .., us |-> ..]                       *)
(*   an exposition line      [name, labels, tok]: the series name, the set *)
(*                           of label fragments, the trailing token        *)
(*   dict                    a function from field names to values         *)
(***************************************************************************)
EXTENDS Integers, Sequences, FiniteSets, TLC

VARIABLES
    snapshots,  \* ReadySetMetricsCollector.snapshots
    file,       \* the content of the file save() wrote, NoFile before that
    now,        \* the wall clock, in seconds
    ret,        \* what the last collect_once returned
    last,       \* the last operation, its input and whether it raised
    pc,         \* where collect_loop stands
    start,      \* collect_loop's local start
    duration,   \* collect_loop's argument duration
    interval,   \* collect_loop's argument interval
    raw,        \* parse_metrics: the lines not yet read
    acc,        \* parse_metrics: the snapshot under construction
    xpc         \* where parse_metrics stands

vars == <<snapshots, file, now, ret, last, pc, start, duration, interval,
          raw, acc, xpc>>

\* ------------------------------------------------------------ bounds
MaxSnapshots == 2
MaxFileLen == 3
MaxLines == 2
MaxTime == 6
MaxDuration == 3

\* ------------------------------------------------------------ program constants
\* requests.get(..., timeout=5)
Timeout == 5
\* collect_loop(..., interval: int = 2)
DefaultInterval == 2

\* ------------------------------------------------------------ values
None == <<>>
Some(x) == <<x>>

RECURSIVE GCD(_, _)
GCD(a, b) == IF b = 0 THEN a ELSE GCD(b, a % b)

\* A float, as the fraction n/d in lowest terms (d > 0).
Rat(n, d) == LET g == GCD(n, d) IN [n |-> n \div g, d |-> d \div g]

Zero == Rat(0, 1)

Digits == {"0", "1", "2", "3", "4", "5", "6", "7", "8", "9"}

DigitVal(c) ==
    CASE c = "0" -> 0 [] c = "1" -> 1 [] c = "2" -> 2 [] c = "3" -> 3
      [] c = "4" -> 4 [] c = "5" -> 5 [] c = "6" -> 6 [] c = "7" -> 7
      [] c = "8" -> 8 [] c = "9" -> 9

DigitChar(n) ==
    CASE n = 0 -> "0" [] n = 1 -> "1" [] n = 2 -> "2" [] n = 3 -> "3"
      [] n = 4 -> "4" [] n = 5 -> "5" [] n = 6 -> "6" [] n = 7 -> "7"
      [] n = 8 -> "8" [] n = 9 -> "9"

IsDigits(s) == Len(s) > 0 /\ \A i \in 1..Len(s) : s[i] \in Digits

\* int("42") for a string of decimal digits.
RECURSIVE DigitsToInt(_)
DigitsToInt(s) ==
    IF s = <<>> THEN 0
    ELSE 10 * DigitsToInt(SubSeq(s, 1, Len(s) - 1)) + DigitVal(s[Len(s)])

\* str(n) for n >= 0.
RECURSIVE IntToDigits(_)
IntToDigits(n) ==
    IF n < 10 THEN <<DigitChar(n)>>
    ELSE Append(IntToDigits(n \div 10), DigitChar(n % 10))

RECURSIVE Pow10(_)
Pow10(k) == IF k = 0 THEN 1 ELSE 10 * Pow10(k - 1)

\* The index of the first "." of s, 0 when it has none.
DotAt(s) ==
    IF \E i \in 1..Len(s) : s[i] = "."
    THEN CHOOSE i \in 1..Len(s) : s[i] = "." /\ \A j \in 1..(i - 1) : s[j] # "."
    ELSE 0

\* ------------------------------------------------------------ MetricsSnapshot
Fields == {"timestamp", "upstream_query_count", "readyset_query_count",
           "upstream_p50_us", "upstream_p99_us", "readyset_p50_us",
           "readyset_p99_us", "memory_bytes", "client_connections",
           "upstream_connections", "cache_hit_rate"}

IntFields == {"upstream_query_count", "readyset_query_count", "memory_bytes",
              "client_connections", "upstream_connections"}

FloatFields == {"upstream_p50_us", "upstream_p99_us", "readyset_p50_us",
                "readyset_p99_us", "cache_hit_rate"}

\* The dataclass's default of a field that has one (timestamp has none).
FieldDefault(f) == IF f \in IntFields THEN 0 ELSE Zero

\* MetricsSnapshot(timestamp=ts): every other field at its default.
MetricsSnapshot(ts) ==
    [f \in Fields |-> IF f = "timestamp" THEN ts ELSE FieldDefault(f)]

\* ------------------------------------------------------------ exposition text
\* Series names and label fragments of the endpoint's text.
CountName == "readyset_query_log_execution_time_us_count"
LatencyName == "readyset_query_log_execution_time_us"
MemoryName == "readyset_allocator_resident_bytes"
ClientsName == "readyset_noria_client_connected_clients"
UpstreamConnsName == "readyset_client_upstream_connections"
OtherName == "readyset_other_metric"
CommentName == "# HELP"
BlankName == ""

LblUpstream == "database_type=\"upstream\""
LblReadyset == "database_type=\"readyset\""
LblQ50 == "quantile=\"0.5\""
LblQ99 == "quantile=\"0.99\""

\* One line of text: name{labels} tok. tok = <<>> is a line that ends after
\* the name and labels, with no whitespace and no value.
Line(name, labels, tok) == [name |-> name, labels |-> labels, tok |-> tok]

T42 == <<"4", "2">>
T8 == <<"8">>
T1 == <<"1">>
T42_7 == <<"4", "2", ".", "7">>
T1_5 == <<"1", ".", "5">>
T2000 == <<"2", "0", "0", "0">>
TNeg == <<"-", "5">>

\* line.startswith('#')
StartsWithHash(line) == line.name = CommentName

\* not line.strip()
IsBlank(line) == line.name = BlankName /\ line.labels = {} /\ line.tok = <<>>

\* 'execution_time_us_count' in line
HasCountMarker(line) == line.name = CountName

\* 'execution_time_us{' in line or 'execution_time_us ' in line: the name
\* ends in execution_time_us and a label block or a space follows it.
HasLatencyMarker(line) ==
    line.name = LatencyName /\ (line.labels # {} \/ line.tok # <<>>)

\* '<fragment>' in line, for a label fragment.
HasLabel(line, l) == l \in line.labels

\* line.startswith('readyset_allocator_resident_bytes')
IsMemoryLine(line) == line.name = MemoryName

\* 'noria_client_connected_clients' in line
HasClientsMarker(line) == line.name = ClientsName

\* 'client_upstream_connections' in line
HasUpstreamConnsMarker(line) == line.name = UpstreamConnsName

\* re.search(r'\s(\d+)\s*$', line): the whitespace must come right before a
\* run of digits that reaches the end of the line, so it matches exactly
\* when the trailing token is all digits. None when there is no match.
IntMatch(line) == IF IsDigits(line.tok) THEN Some(line.tok) ELSE None

\* re.search(r'\s(\d+\.?\d*)\s*$', line): digits, an optional ".", digits.
FloatMatch(line) ==
    LET t == line.tok
        k == DotAt(t)
    IN  IF k = 0
        THEN (IF IsDigits(t) THEN Some(t) ELSE None)
        ELSE IF /\ IsDigits(SubSeq(t, 1, k - 1))
                /\ \A i \in (k + 1)..Len(t) : t[i] \in Digits
             THEN Some(t)
             ELSE None

\* float(text) for text matched by FloatMatch.
ToFloat(t) ==
    LET k == DotAt(t)
    IN  IF k = 0 THEN Rat(DigitsToInt(t), 1)
        ELSE LET frac == SubSeq(t, k + 1, Len(t))
             IN  Rat(DigitsToInt(SubSeq(t, 1, k - 1)) * Pow10(Len(frac))
                       + DigitsToInt(frac),
                     Pow10(Len(frac)))

\* snapshot.<f> = int(match.group(1)) if match
SetInt(s, f, line) ==
    IF IntMatch(line) # None
    THEN [s EXCEPT ![f] = DigitsToInt(IntMatch(line)[1])]
    ELSE s

\* snapshot.<f> = float(match.group(1)) if match
SetFloat(s, f, line) ==
    IF FloatMatch(line) # None
    THEN [s EXCEPT ![f] = ToFloat(FloatMatch(line)[1])]
    ELSE s

\* Query execution counts.
ParseQueryCounts(s, line) ==
    IF HasCountMarker(line)
    THEN IF HasLabel(line, LblUpstream)
         THEN SetInt(s, "upstream_query_count", line)
         ELSE IF HasLabel(line, LblReadyset)
              THEN SetInt(s, "readyset_query_count", line)
              ELSE s
    ELSE s

\* Query latencies.
ParseLatencies(s, line) ==
    IF HasLatencyMarker(line)
    THEN IF HasLabel(line, LblUpstream)
         THEN IF HasLabel(line, LblQ50)
              THEN SetFloat(s, "upstream_p50_us", line)
              ELSE IF HasLabel(line, LblQ99)
                   THEN SetFloat(s, "upstream_p99_us", line)
                   ELSE s
         ELSE IF HasLabel(line, LblReadyset)
              THEN IF HasLabel(line, LblQ50)
                   THEN SetFloat(s, "readyset_p50_us", line)
                   ELSE IF HasLabel(line, LblQ99)
                        THEN SetFloat(s, "readyset_p99_us", line)
                        ELSE s
              ELSE s
    ELSE s

\* Memory.
ParseMemory(s, line) ==
    IF IsMemoryLine(line) THEN SetInt(s, "memory_bytes", line) ELSE s

\* Connections.
ParseClients(s, line) ==
    IF HasClientsMarker(line) THEN SetInt(s, "client_connections", line) ELSE s

ParseUpstreamConns(s, line) ==
    IF HasUpstreamConnsMarker(line)
    THEN SetInt(s, "upstream_connections", line)
    ELSE s

\* The body of parse_metrics' for loop, for one line.
ParseLine(s, line) ==
    IF StartsWithHash(line) \/ IsBlank(line)
    THEN s
    ELSE ParseUpstreamConns(
             ParseClients(
                 ParseMemory(
                     ParseLatencies(
                         ParseQueryCounts(s, line), line), line), line), line)

\* The rate computed from the upstream count instead of the cache's.
HitRateOfUpstream(s) ==
    LET total == s["upstream_query_count"] + s["readyset_query_count"]
    IN  IF total > 0
        THEN [s EXCEPT !["cache_hit_rate"] =
                           Rat(s["upstream_query_count"] * 100, total)]
        ELSE s

\* Calculate cache hit rate.
HitRate(s) ==
    LET total == s["upstream_query_count"] + s["readyset_query_count"]
    IN  IF total > 0
        THEN [s EXCEPT !["cache_hit_rate"] =
                           Rat(s["readyset_query_count"] * 100, total)]
        ELSE s

RECURSIVE ParseLines(_, _)
ParseLines(s, lines) ==
    IF lines = <<>> THEN s
    ELSE ParseLines(ParseLine(s, Head(lines)), Tail(lines))

\* parse_metrics(raw), with ts what datetime.now() returns.
parse_metrics(text, ts) == HitRate(ParseLines(MetricsSnapshot(ts), text))

\* ------------------------------------------------------------ inputs
\* The lines the endpoint may send.
LineVocab ==
    { Line(CommentName, {}, <<>>),
      Line(BlankName, {}, <<>>),
      Line(OtherName, {}, T42),
      Line(CountName, {LblUpstream}, T42),
      Line(CountName, {LblUpstream}, T42_7),
      Line(CountName, {LblUpstream}, <<>>),
      Line(CountName, {LblReadyset}, T8),
      Line(CountName, {LblReadyset}, T1),
      Line(CountName, {LblReadyset}, T42_7),
      Line(CountName, {LblUpstream, LblReadyset}, T8),
      Line(LatencyName, {LblUpstream, LblQ50}, T2000),
      Line(LatencyName, {LblReadyset, LblQ99}, T1_5),
      Line(LatencyName, {LblReadyset, LblQ50}, TNeg),
      Line(MemoryName, {}, T2000),
      Line(MemoryName, {}, T42_7),
      Line(ClientsName, {}, T8),
      Line(ClientsName, {}, T42_7),
      Line(UpstreamConnsName, {}, T8),
      Line(UpstreamConnsName, {}, T42_7) }

\* The lines that bear on the query counts.
CountLines ==
    { Line(OtherName, {}, T42),
      Line(CountName, {LblUpstream}, T42),
      Line(CountName, {LblUpstream}, T42_7),
      Line(CountName, {LblReadyset}, T8),
      Line(CountName, {LblReadyset}, T1) }

SeqsUpTo(S, n) == UNION { [1..k -> S] : k \in 0..n }

\* Exposition texts: a text is the sequence of its lines, "" the empty one.
Bodies == SeqsUpTo(LineVocab, MaxLines)
CountBodies == SeqsUpTo(CountLines, MaxLines)

EmptyBody == <<>>
UnrecognisedBody == <<Line(OtherName, {}, T42)>>
CountsBody == <<Line(CountName, {LblUpstream}, T42),
                Line(CountName, {LblReadyset}, T8)>>
ApiBodies == {EmptyBody, CountsBody}

\* What requests.get meets: a response with a status and a body, a
\* connection error, or no answer within the timeout.
OkResponse(b) == [kind |-> "response", status |-> 200, body |-> b]
ErrorResponses ==
    { [kind |-> "ConnectionError", status |-> 0, body |-> EmptyBody],
      [kind |-> "Timeout", status |-> 0, body |-> EmptyBody],
      [kind |-> "response", status |-> 404, body |-> UnrecognisedBody],
      [kind |-> "response", status |-> 500, body |-> EmptyBody] }
ApiResponses == { OkResponse(b) : b \in ApiBodies } \cup ErrorResponses
CountResponses == { OkResponse(b) : b \in CountBodies } \cup ErrorResponses

\* The microsecond part datetime.now() may return.
Micros == {0, 250000}

\* ------------------------------------------------------------ collector
\* response.raise_for_status() raises HTTPError for a 4xx or 5xx status.
RaisesForStatus(resp) == resp.status >= 400 /\ resp.status < 600

\* What the try block of fetch_metrics raises for a response, "" if nothing.
Raised(resp) ==
    IF resp.kind \in {"ConnectionError", "Timeout"} THEN resp.kind
    ELSE IF RaisesForStatus(resp) THEN "HTTPError"
    ELSE ""

\* A handler that catches everything, KeyboardInterrupt included.
IsBaseException(e) == TRUE

\* "except Exception": the exceptions of requests derive from Exception,
\* KeyboardInterrupt derives from BaseException only.
IsException(e) == e \in {"ConnectionError", "Timeout", "HTTPError"}

\* fetch_metrics: the body, or None when the try block raised an Exception.
fetch_metrics(resp) ==
    IF Raised(resp) # "" /\ IsException(Raised(resp)) THEN None
    ELSE Some(resp.body)

\* "if raw:" for raw an Optional[str]: None and "" are both false.
RawTruthy(r) == r # None /\ r[1] # EmptyBody

\* collect_once with a snapshot of defaults appended when the fetch failed.
collect_once_appends_on_failure(snaps, resp, ts) ==
    LET r == fetch_metrics(resp)
        snapshot == IF RawTruthy(r) THEN parse_metrics(r[1], ts)
                    ELSE MetricsSnapshot(ts)
    IN  [snapshots |-> Append(snaps, snapshot),
         ret |-> IF RawTruthy(r) THEN Some(snapshot) ELSE None]

\* collect_once: the sequence after the call and the value returned.
collect_once(snaps, resp, ts) ==
    LET r == fetch_metrics(resp)
    IN  IF RawTruthy(r)
        THEN LET snapshot == parse_metrics(r[1], ts)
             IN  [snapshots |-> Append(snaps, snapshot), ret |-> Some(snapshot)]
        ELSE [snapshots |-> snaps, ret |-> None]

\* ------------------------------------------------------------ persistence
\* datetime.isoformat(): the microseconds are written only when not 0. The
\* text is modelled by its parts, <<seconds>> or <<seconds, microseconds>>.
IsoFormatSeconds(ts) == <<ts.sec>>

IsoFormat(ts) == IF ts.us = 0 THEN <<ts.sec>> ELSE <<ts.sec, ts.us>>

\* Whether datetime.fromisoformat accepts the text.
ValidIso(t) == Len(t) \in {1, 2}

\* datetime.fromisoformat(text) for a text it accepts.
FromIsoFormat(t) ==
    [sec |-> t[1], us |-> IF Len(t) = 2 THEN t[2] ELSE 0]

\* to_dict: asdict(self), with the timestamp in ISO form.
to_dict(s) ==
    [f \in Fields |-> IF f = "timestamp" THEN IsoFormat(s[f]) ELSE s[f]]

\* from_dict: d['timestamp'] raises KeyError when the key is missing,
\* fromisoformat raises ValueError, cls(**d) raises TypeError for a key that
\* is no field and fills a missing field that has a default.
from_dict(d) ==
    IF "timestamp" \notin DOMAIN d
    THEN [error |-> "KeyError", val |-> None]
    ELSE IF ~ValidIso(d["timestamp"])
    THEN [error |-> "ValueError", val |-> None]
    ELSE IF ~(DOMAIN d \subseteq Fields)
    THEN [error |-> "TypeError", val |-> None]
    ELSE [error |-> "",
          val |-> Some([f \in Fields |->
                          IF f = "timestamp" THEN FromIsoFormat(d[f])
                          ELSE IF f \in DOMAIN d THEN d[f]
                          ELSE FieldDefault(f)])]

\* json.dump of one dict: an int is written as its decimal digits; a float
\* is written by repr, which float() reads back to the same float, and a
\* string is kept.
JsonDump(d) ==
    [k \in DOMAIN d |-> IF k \in IntFields THEN IntToDigits(d[k]) ELSE d[k]]

\* json.load of one object.
JsonLoad(o) ==
    [k \in DOMAIN o |-> IF k \in IntFields THEN DigitsToInt(o[k]) ELSE o[k]]

\* save: the content written to the file.
save(snaps) == Some([i \in 1..Len(snaps) |-> JsonDump(to_dict(snaps[i]))])

\* load that appends record by record, keeping what it read before raising.
load_partial(snaps, content) ==
    IF content = None
    THEN [snapshots |-> snaps, error |-> "FileNotFoundError", at |-> 0]
    ELSE LET data == [i \in 1..Len(content[1]) |-> JsonLoad(content[1][i])]
             res == [i \in 1..Len(data) |-> from_dict(data[i])]
             bad == { i \in 1..Len(data) : res[i].error # "" }
             first == CHOOSE i \in bad : \A j \in bad : i <= j
         IN  IF bad # {}
             THEN [snapshots |-> [i \in 1..(first - 1) |-> res[i].val[1]],
                   error |-> res[first].error, at |-> first]
             ELSE [snapshots |-> [i \in 1..Len(data) |-> res[i].val[1]],
                   error |-> "", at |-> 0]

\* load: content is what the file holds, None when there is no file. The
\* list is built whole before self.snapshots is assigned; an exception on the
\* way leaves self.snapshots as it was. error is "" when load returned, and
\* at is the index of the record that raised (0: none did).
load(snaps, content) ==
    IF content = None
    THEN [snapshots |-> snaps, error |-> "FileNotFoundError", at |-> 0]
    ELSE LET data == [i \in 1..Len(content[1]) |-> JsonLoad(content[1][i])]
             res == [i \in 1..Len(data) |-> from_dict(data[i])]
             bad == { i \in 1..Len(data) : res[i].error # "" }
             first == CHOOSE i \in bad : \A j \in bad : i <= j
         IN  IF bad # {}
             THEN [snapshots |-> snaps, error |-> res[first].error, at |-> first]
             ELSE [snapshots |-> [i \in 1..Len(data) |-> res[i].val[1]],
                   error |-> "", at |-> 0]

\* Files not written by save.
GoodRecord ==
    JsonDump(to_dict(parse_metrics(CountsBody, [sec |-> 0, us |-> 250000])))
Without(d, f) == [k \in DOMAIN d \ {f} |-> d[k]]
With(d, f, v) == [k \in DOMAIN d \cup {f} |-> IF k = f THEN v ELSE d[k]]
NoTimestamp == Without(GoodRecord, "timestamp")
NoMemory == Without(GoodRecord, "memory_bytes")
ExtraField == With(GoodRecord, "hostname", <<"h">>)
ExtRecords == {GoodRecord, NoTimestamp, NoMemory, ExtraField}

\* Sequences of records of which at most one is not GoodRecord.
ExternalFiles ==
    { f \in SeqsUpTo(ExtRecords, MaxFileLen) :
        Cardinality({ i \in 1..Len(f) : f[i] # GoodRecord }) <= 1 }

\* ------------------------------------------------------------ state machine
Init ==
    /\ snapshots = <<>>
    /\ file = None
    /\ now = 0
    /\ ret = None
    /\ last = [op |-> "init"]
    /\ pc = "idle"
    /\ start = 0
    /\ duration = None
    /\ interval = DefaultInterval
    /\ raw = <<>>
    /\ acc = MetricsSnapshot([sec |-> 0, us |-> 0])
    /\ xpc = "idle"

loopVars == <<pc, start, duration, interval>>
parseVars == <<raw, acc, xpc>>

\* A call of collect_once outside collect_loop.
CollectOnce(resp, us) ==
    /\ pc = "idle"
    /\ Len(snapshots) < MaxSnapshots \/ ~RawTruthy(fetch_metrics(resp))
    /\ LET r == collect_once(snapshots, resp, [sec |-> now, us |-> us])
       IN  /\ snapshots' = r.snapshots
           /\ ret' = r.ret
    /\ last' = [op |-> "collect_once", resp |-> resp]
    /\ UNCHANGED <<file, now, loopVars, parseVars>>

\* A call of save.
Save ==
    /\ pc = "idle"
    /\ file' = save(snapshots)
    /\ last' = [op |-> "save"]
    /\ UNCHANGED <<snapshots, now, ret, loopVars, parseVars>>

\* A call of load, on the file save wrote (or on no file) or on another file.
Load(content) ==
    /\ pc = "idle"
    /\ LET r == load(snapshots, content)
       IN  /\ snapshots' = r.snapshots
           /\ last' = [op |-> "load", content |-> content, error |-> r.error,
                       at |-> r.at, saved |-> (content = file)]
    /\ UNCHANGED <<file, now, ret, loopVars, parseVars>>

Next ==
    \/ \E resp \in ApiResponses, us \in Micros : CollectOnce(resp, us)
    \/ Save
    \/ \E content \in {file} \cup { Some(f) : f \in ExternalFiles } : Load(content)

Spec == Init /\ [][Next]_vars

\* The collector under collect_once alone, over texts of query counts.
CollectNext ==
    \E resp \in CountResponses, us \in Micros : CollectOnce(resp, us)

CollectSpec == Init /\ [][CollectNext]_vars

\* parse_metrics step by step. snapshot = MetricsSnapshot(timestamp=now).
ParseStart(text, us) ==
    /\ xpc = "idle"
    /\ raw' = text
    /\ acc' = MetricsSnapshot([sec |-> now, us |-> us])
    /\ xpc' = "lines"
    /\ last' = [op |-> "parse_metrics"]
    /\ UNCHANGED <<snapshots, file, now, ret, loopVars>>

\* One turn of "for line in raw.split('\n')".
ParseNextLine ==
    /\ xpc = "lines"
    /\ raw # <<>>
    /\ acc' = ParseLine(acc, Head(raw))
    /\ raw' = Tail(raw)
    /\ last' = [op |-> "line", line |-> Head(raw)]
    /\ UNCHANGED <<snapshots, file, now, ret, loopVars, xpc>>

\* After the loop: the hit rate, and return.
ParseFinish ==
    /\ xpc = "lines"
    /\ raw = <<>>
    /\ acc' = HitRate(acc)
    /\ xpc' = "idle"
    /\ last' = [op |-> "return"]
    /\ UNCHANGED <<snapshots, file, now, ret, loopVars, raw>>

ExtractNext ==
    \/ \E text \in Bodies, us \in Micros : ParseStart(text, us)
    \/ ParseNextLine
    \/ ParseFinish

ExtractSpec == Init /\ [][ExtractNext]_vars

\* ------------------------------------------------------------ collect_loop
Durations == {None} \cup { Some(d) : d \in 0..MaxDuration }
Intervals == 0..DefaultInterval

\* The responses and clock readings of the loop's runs.
LoopResponses == ApiResponses
LoopMicros == {0}

\* How long a fetch takes: the whole timeout when it times out.
FetchTimes(resp) == IF resp.kind = "Timeout" THEN {Timeout} ELSE {0, 1}

\* "if duration": None and 0 are both false.
DurationTruthy(d) == d # None /\ d[1] # 0

\* The loop leaves at once when a tick returned no snapshot.
LoopExitsOnFailure(snapshot, d, elapsed) ==
    snapshot = None \/ (DurationTruthy(d) /\ elapsed >= d[1])

\* "if duration and (time.time() - start) >= duration: break"
LoopExits(snapshot, d, elapsed) == DurationTruthy(d) /\ elapsed >= d[1]

\* collect_loop is called: start = time.time(), and the first collect_once
\* begins its fetch.
CollectLoop(d, i) ==
    /\ pc = "idle"
    /\ start' = now
    /\ duration' = d
    /\ interval' = i
    /\ pc' = "fetching"
    /\ last' = [op |-> "collect_loop"]
    /\ UNCHANGED <<snapshots, file, now, ret, parseVars>>

\* The fetch of the tick's collect_once ends, after dt seconds, and
\* collect_once returns to the loop, which prints the snapshot if there is one.
FetchReturn(resp, us, dt) ==
    /\ pc = "fetching"
    /\ now + dt <= MaxTime
    /\ Len(snapshots) < MaxSnapshots \/ ~RawTruthy(fetch_metrics(resp))
    /\ now' = now + dt
    /\ LET r == collect_once(snapshots, resp, [sec |-> now + dt, us |-> us])
       IN  /\ snapshots' = r.snapshots
           /\ ret' = r.ret
    /\ pc' = "check"
    /\ last' = [op |-> "collect_once", resp |-> resp]
    /\ UNCHANGED <<file, start, duration, interval, parseVars>>

\* The duration check at the end of the tick: break, or go to sleep.
CheckDuration ==
    /\ pc = "check"
    /\ pc' = IF LoopExits(ret, duration, now - start) THEN "done" ELSE "sleeping"
    /\ last' = [op |-> "check"]
    /\ UNCHANGED <<snapshots, file, now, ret, start, duration, interval, parseVars>>

\* time.sleep(interval) returns and the next collect_once begins its fetch.
SleepReturn ==
    /\ pc = "sleeping"
    /\ now + interval <= MaxTime
    /\ now' = now + interval
    /\ pc' = "fetching"
    /\ last' = [op |-> "sleep"]
    /\ UNCHANGED <<snapshots, file, ret, start, duration, interval, parseVars>>

\* The interrupt signal: Python raises KeyboardInterrupt in the main thread
\* where it stands, in requests.get and time.sleep too. Inside fetch_metrics
\* the handler "except Exception" is tried; when it does not catch, the
\* exception leaves collect_once and reaches collect_loop's handler.
Interrupt ==
    /\ pc \in {"fetching", "check", "sleeping"}
    /\ IF pc = "fetching" /\ IsException("KeyboardInterrupt")
       THEN pc' = "check" /\ ret' = None
       ELSE pc' = "stopped" /\ ret' = ret
    /\ last' = [op |-> "KeyboardInterrupt", at |-> pc]
    /\ UNCHANGED <<snapshots, file, now, start, duration, interval, parseVars>>

LoopNext ==
    \/ \E d \in Durations, i \in Intervals : CollectLoop(d, i)
    \/ \E resp \in LoopResponses, us \in LoopMicros :
         \E dt \in FetchTimes(resp) : FetchReturn(resp, us, dt)
    \/ CheckDuration
    \/ SleepReturn
    \/ Interrupt

LoopSpec == Init /\ [][LoopNext]_vars

\* ------------------------------------------------------------ claims, Spec
\* A transport failure: a network error, a timeout, or a status that is not
\* a success.
TransportFailure(resp) ==
    resp.kind # "response" \/ ~(resp.status >= 200 /\ resp.status < 300)

\* The step is a call of collect_once.
CollectStep == last'.op = "collect_once"

C2_SuccessAppendsOne ==
    [][CollectStep /\ last'.resp.kind = "response" /\ last'.resp.status = 200
         => /\ ret' # None
            /\ snapshots' = Append(snapshots, ret'[1])
            /\ \E us \in Micros :
                 ret'[1] = parse_metrics(last'.resp.body, [sec |-> now, us |-> us])]_vars

\* C3: save does not change the sequence, and a load of the file that
\* follows a save returns and leaves the sequence equal to the saved one.
C3_RoundTrip ==
    [][/\ last'.op = "save" => snapshots' = snapshots
       /\ last.op = "save" /\ last'.op = "load" /\ last'.saved
            => last'.error = "" /\ snapshots' = snapshots]_vars

\* C3's case: a load of the file save wrote from two snapshots, one with and
\* one without microseconds, one with counts and a fractional hit rate.
C3_Witness ==
    /\ last.op = "load"
    /\ last.saved
    /\ last.error = ""
    /\ file = save(snapshots)
    /\ Len(snapshots) = 2
    /\ snapshots[1]["timestamp"].us = 0
    /\ snapshots[2]["timestamp"].us # 0
    /\ snapshots[2]["readyset_query_count"] = 8
    /\ snapshots[2]["cache_hit_rate"] = Rat(16, 1)

\* Whether some record of the file lacks the field f.
Lacks(content, f) ==
    content # None /\ \E i \in 1..Len(content[1]) : f \notin DOMAIN content[1][i]

\* C4: a load of a file in which a record lacks timestamp fails, and the
\* sequence is what it was before the call.
C4_MissingTimestampFails ==
    [][last'.op = "load" /\ Lacks(last'.content, "timestamp")
         => last'.error # "" /\ snapshots' = snapshots]_vars

\* C4's case: the middle record of three lacks timestamp, the first is well
\* formed, and the collector held two collected snapshots before the load.
C4_Witness ==
    /\ last.op = "load"
    /\ last.content = Some(<<GoodRecord, NoTimestamp, GoodRecord>>)
    /\ last.error = "KeyError"
    /\ last.at = 2
    /\ Len(snapshots) = 2
    /\ snapshots[1]["timestamp"].us = 0

\* C5: load accepts a record exactly when it holds every field of the
\* snapshot; extra fields are ignored.
C5_AcceptsExactlyFullRecords ==
    last.op = "load" /\ last.content # None
      => (last.error = "" <=> \A f \in Fields : ~Lacks(last.content, f))

\* ------------------------------------------------------------ claims, CollectSpec
\* C6: from an empty collector, after any calls of collect_once, every
\* snapshot has cache_hit_rate = 100 * readyset_query_count /
\* (upstream_query_count + readyset_query_count) when the sum is not 0 and 0
\* otherwise, so the rate lies in [0, 100]. (h.n / h.d is the rate.)
C6_HitRateFormula ==
    \A i \in 1..Len(snapshots) :
        LET s == snapshots[i]
            r == s["readyset_query_count"]
            total == s["upstream_query_count"] + r
            h == s["cache_hit_rate"]
        IN  /\ h.d > 0
            /\ total # 0 => h.n * total = 100 * r * h.d
            /\ total = 0 => h.n = 0
            /\ 0 <= h.n /\ h.n <= 100 * h.d

\* C6's case: after a failed call, the sequence holds a snapshot with both
\* counts 0 and one with counts 42 and 1, whose rate 100/43 is no integer.
C6_Witness ==
    /\ last.op = "collect_once"
    /\ TransportFailure(last.resp)
    /\ Len(snapshots) = 2
    /\ snapshots[1]["upstream_query_count"] + snapshots[1]["readyset_query_count"] = 0
    /\ snapshots[2]["upstream_query_count"] = 42
    /\ snapshots[2]["readyset_query_count"] = 1
    /\ snapshots[2]["cache_hit_rate"] = [n |-> 100, d |-> 43]

\* ------------------------------------------------------------ claims, ExtractSpec
\* The integer field the extractor's conditions assign a line to, None when
\* they assign it to none.
IntFieldOf(line) ==
    IF StartsWithHash(line) \/ IsBlank(line) THEN None
    ELSE IF HasCountMarker(line) /\ HasLabel(line, LblUpstream)
    THEN Some("upstream_query_count")
    ELSE IF HasCountMarker(line) /\ HasLabel(line, LblReadyset)
    THEN Some("readyset_query_count")
    ELSE IF IsMemoryLine(line) THEN Some("memory_bytes")
    ELSE IF HasClientsMarker(line) THEN Some("client_connections")
    ELSE IF HasUpstreamConnsMarker(line) THEN Some("upstream_connections")
    ELSE None

\* The token is a decimal number with a fraction, such as 42.7.
IsDecimal(t) ==
    /\ DotAt(t) > 1
    /\ IsDigits(SubSeq(t, 1, DotAt(t) - 1))
    /\ IsDigits(SubSeq(t, DotAt(t) + 1, Len(t)))

\* The integer part of a decimal token.
Truncated(t) == DigitsToInt(SubSeq(t, 1, DotAt(t) - 1))

\* C10: a line of an integer field whose trailing token is a decimal number
\* sets the field to the truncated value.
C10_DecimalIsTruncated ==
    [][last'.op = "line" /\ IntFieldOf(last'.line) # None /\ IsDecimal(last'.line.tok)
         => acc'[IntFieldOf(last'.line)[1]] = Truncated(last'.line.tok)]_vars

\* ------------------------------------------------------------ claims, LoopSpec
\* C7 as stated: a fetch in flight always runs to completion, so from a
\* fetch the loop goes only to the end of its collect_once.
C7_FetchAlwaysCompletes ==
    [][pc = "fetching" => pc' = "check"]_vars

\* C7 amended: an interrupt stops the loop where it stands, and one that
\* arrives during a fetch aborts it: collect_once does not return and nothing
\* is appended. Duration expiry alone takes effect only at the tick boundary.
C7_InterruptStopsAtOnce ==
    [][/\ last'.op = "KeyboardInterrupt"
            => pc' = "stopped" /\ snapshots' = snapshots /\ ret' = ret
       /\ pc' = "done" => pc = "check"]_vars

\* C7's case: the interrupt arrived during the fetch of a tick after a tick
\* that had appended a snapshot.
C7_Witness ==
    /\ last.op = "KeyboardInterrupt"
    /\ last.at = "fetching"
    /\ pc = "stopped"
    /\ Len(snapshots) = 1
    /\ now > start

\* C8: for every duration d >= 0 and with no interrupt, the loop leaves at
\* the first tick boundary at which d seconds have passed since its start.
C8_ExitsAtFirstExpiredBoundary ==
    [][pc = "check" /\ last'.op = "check" /\ duration # None
         /\ now - start >= duration[1]
         => pc' = "done"]_vars

\* C9: a failed tick does not end the loop and is not retried before the
\* wait: the loop ends only by duration expiry or interrupt, a fetch begins
\* only on entry or when the wait of interval seconds has passed, and after
\* a failed tick the loop waits and fetches again.
C9_FailureSkipsTick ==
    [][/\ pc' = "done" => /\ pc = "check"
                          /\ duration # None
                          /\ duration[1] > 0
                          /\ now - start >= duration[1]
       /\ pc' = "stopped" => last'.op = "KeyboardInterrupt"
       /\ pc' = "fetching" => \/ pc = "idle"
                              \/ pc = "sleeping" /\ now' = now + interval
       /\ pc = "check" /\ ret = None /\ last'.op = "check"
            /\ (duration = None \/ now - start < duration[1])
            => pc' = "sleeping"
       /\ pc = "sleeping" /\ last'.op = "sleep" => pc' = "fetching"]_vars

\* C9's case: a fetch begins after the wait that followed a failed tick,
\* itself after a tick that appended a snapshot, in a run with a duration.
C9_Witness ==
    /\ pc = "fetching"
    /\ last.op = "sleep"
    /\ ret = None
    /\ Len(snapshots) = 1
    /\ duration # None

====
